---- MODULE Spec2Model ----
(***************************************************************************)
(* Model of m3inference/m3twitter.py (class M3Twitter) and of the driver   *)
(* script check_twitter_users.py.                                          *)
(*                                                                         *)
(* Text that the code inspects character-wise (URLs, file paths, screen    *)
(* names) is a sequence of tokens; text that is only compared or copied    *)
(* (ids, bios, names) is a string.  Python's None is the token NoneVal.    *)
(* A dict is a function whose DOMAIN is its set of keys.                   *)
(***************************************************************************)
EXTENDS Integers, Sequences, FiniteSets, TLC

VARIABLES
    workflow,         \* the entry point this run drives: "single", "batch", "transform"
    twitter_session,  \* self.twitter_session: FALSE = None, TRUE = an OAuth1 session
    cacheFiles,       \* <cache_dir>/<key>.json : key -> JSON text
    disk,             \* image files present on disk (set of paths)
    numCalls,         \* single-user lookups made so far
    prev,             \* the lookup before the last one
    last,             \* the last lookup: what it did and what it gave back
    tj,               \* last transform_jsonl_object call: arguments and result
    pc,               \* position of process_twitter_batch
    usersLiPt,        \* file users_li.pt: <<>> = absent, <<list>> = present
    data,             \* argument of process_twitter_batch
    users_li,         \* list of canonical records
    normIdx,          \* records normalised so far by the batch loop
    batchDownloads,   \* download_resize_img calls of the batch run
    batchLangCalls,   \* arguments of the get_lang calls of the batch run
    inferArg,         \* what the batch run passed to self.infer: <<>> or <<list>>
    preds,            \* preds.items(): sequence of <<user_id, pred>>
    idx_user,         \* loop index of the output loop
    num_errors,       \* num_errors
    outFiles,         \* inferred_user_attributes/<name>.json : name -> pred
    id2name           \* self.id2name

vars == <<workflow, twitter_session, cacheFiles, disk, numCalls, prev, last, tj, pc,
          usersLiPt, data, users_li, normIdx, batchDownloads, batchLangCalls,
          inferArg, preds, idx_user, num_errors, outFiles, id2name>>

singleVars == <<workflow, twitter_session, cacheFiles, numCalls, prev, last>>
batchVars == <<pc, usersLiPt, data, users_li, normIdx, batchDownloads,
               batchLangCalls, inferArg, preds, idx_user, num_errors,
               outFiles, id2name>>

----------------------------------------------------------------------------
(* Bounds *)

MaxCalls == 2
MaxBatch == 2

----------------------------------------------------------------------------
(* Values *)

NoneVal == "<None>"
UNKNOWN_LANG == <<"UNKNOWN_LANG">>
TW_DEFAULT_PROFILE_IMG == <<"TW_DEFAULT_PROFILE_IMG">>
CacheDir == "cache_dir"
DataDir == "data_dir"

\* utils.get_lang is opaque: its result is the term get_lang(bio)
get_lang(bio) == <<"get_lang", bio>>

\* M3Inference.infer is opaque: the prediction of a record is a term over it
PredOf(rec) == [pred_of |-> rec]

----------------------------------------------------------------------------
(* Text helpers *)

RECURSIVE Replace(_, _, _)
Replace(s, old, new) ==
    IF s = <<>> THEN <<>>
    ELSE <<IF Head(s) = old THEN new ELSE Head(s)>> \o Replace(Tail(s), old, new)

Contains(s, tok) == \E i \in 1..Len(s) : s[i] = tok

\* str.rfind: last position of tok, 0 when absent (Python gives -1)
RFind(s, tok) ==
    IF Contains(s, tok)
    THEN CHOOSE i \in 1..Len(s) : s[i] = tok /\ \A j \in (i+1)..Len(s) : s[j] # tok
    ELSE 0

\* s.split('/')[-1]
LastSegment(s) == SubSeq(s, RFind(s, "/") + 1, Len(s))

\* s[dotpos + 1:] with dotpos = s.rfind(".")
AfterLastDot(s) == SubSeq(s, RFind(s, ".") + 1, Len(s))

LowerTok(t) == IF t = "GIF" THEN "gif" ELSE IF t = "A" THEN "a" ELSE t

Lower(s) == [i \in 1..Len(s) |-> LowerTok(s[i])]

get_extension(img_path) ==
    IF ~Contains(LastSegment(img_path), ".") THEN <<"png">>
    ELSE IF Lower(AfterLastDot(img_path)) = <<"gif">> THEN <<"png">>
    ELSE AfterLastDot(img_path)

----------------------------------------------------------------------------
(* External collaborators *)

\* preprocess.download_resize_img(url, img_out_path, img_out_path_fullsize):
\* on success the resized file (and the full-size one, when asked for) is on
\* disk afterwards; on failure nothing is written.
download_resize_img(dsk, ok, img_file_resize, img_file_full) ==
    IF ok
    THEN dsk \cup {img_file_resize} \cup (IF img_file_full = <<>> THEN {} ELSE {img_file_full})
    ELSE dsk

----------------------------------------------------------------------------
(* JSON *)

None == [tag |-> "None"]

Dict(input, output) == [tag |-> "dict", input |-> input, output |-> output]

\* json.dump(obj, fh) / json.dump(obj, fh, indent=2, sort_keys=True)
JsonDump(obj, pretty) ==
    IF obj.tag = "None"
    THEN [text |-> "null", pretty |-> pretty]
    ELSE [text |-> "object", pretty |-> pretty,
          members |-> [input |-> obj.input, output |-> obj.output]]

\* json.load(fh)
JsonLoad(txt) ==
    IF txt.text = "null" THEN None
    ELSE Dict(txt.members.input, txt.members.output)

----------------------------------------------------------------------------
(* Single-user path *)

EmptyOf(key) == IF key = "profile_image_url" THEN <<>> ELSE ""

_get_twitter_attrib(key, d) == IF key \in DOMAIN d THEN d[key] ELSE EmptyOf(key)

\* "{}/{}_224x224.{}".format(dir, id, get_extension(img_path))
ResizePath(dir, id, img_path) ==
    <<dir, "/", id, "_224x224", ".">> \o get_extension(img_path)

\* f"{dir}/{id}" + (f".{img_path[img_path.rfind('.') + 1:]}" if '.' in img_path.split('/')[-1] else '')
FullPath(dir, id, img_path) ==
    <<dir, "/", id>> \o
    (IF Contains(LastSegment(img_path), ".") THEN <<".">> \o AfterLastDot(img_path) ELSE <<>>)

Upgrade400(img_path) ==
    Replace(Replace(img_path, "_200x200", "_400x400"), "_normal", "_400x400")

process_twitter(d, dsk, dlOk) ==
    LET screen_name == _get_twitter_attrib("screen_name", d)
        id0 == _get_twitter_attrib("id_str", d)
        bio == _get_twitter_attrib("description", d)
        name == _get_twitter_attrib("name", d)
        img_path0 == _get_twitter_attrib("profile_image_url", d)
        id == IF id0 = "" THEN "dummy" ELSE id0
        lang == IF bio = "" THEN UNKNOWN_LANG ELSE get_lang(bio)
        useDefault == img_path0 = <<>> \/ Contains(img_path0, "default_profile")
        img_path == Upgrade400(img_path0)
        img_file_full == FullPath(CacheDir, id, img_path)
        img_file_resize == IF useDefault THEN TW_DEFAULT_PROFILE_IMG
                           ELSE ResizePath(CacheDir, id, img_path)
        rec == [description |-> bio, id |-> id, img_path |-> img_file_resize,
                lang |-> lang, name |-> name, screen_name |-> screen_name]
    IN [output |-> Dict(rec, PredOf(rec)),
        langCalls |-> IF bio = "" THEN <<>> ELSE <<bio>>,
        downloads |-> IF useDefault THEN 0 ELSE 1,
        disk |-> IF useDefault THEN dsk
                 ELSE download_resize_img(dsk, dlOk, img_file_resize, img_file_full)]

SessionMissing_Never(session) == FALSE

\* line 202: self.twitter_session == None
SessionMissing(session) == ~session

ApiResult(requests, raised, value, ran, logs, dsk, langCalls, downloads) ==
    [requests |-> requests, raised |-> raised, value |-> value,
     normalized |-> ran, inferred |-> ran, logs |-> logs, disk |-> dsk,
     langCalls |-> langCalls, downloads |-> downloads]

\* resp is what self.twitter_session.get(...) does: raise, or give a response
\* args holds the keyword arguments given; an absent one is None
_twitter_api(session, args, resp, dsk, dlOk) ==
    LET p == process_twitter(resp.json, dsk, dlOk)
        processed == ApiResult(1, FALSE, p.output, TRUE, {"info"}, p.disk,
                               p.langCalls, p.downloads)
    IN IF SessionMissing(session)
       THEN ApiResult(0, FALSE, None, FALSE, {"fatal"}, dsk, <<>>, 0)
       ELSE IF "screen_name" \in DOMAIN args
       THEN IF resp.kind = "exception"
            THEN ApiResult(1, FALSE, None, FALSE, {"info", "warning"}, dsk, <<>>, 0)
            ELSE processed
       ELSE IF "id" \in DOMAIN args
       THEN IF resp.kind = "exception"
            THEN ApiResult(1, FALSE, None, FALSE, {"info", "warning"}, dsk, <<>>, 0)
            ELSE IF resp.status # 200
            THEN ApiResult(1, TRUE, None, FALSE, {"info"}, dsk, <<>>, 0)
            ELSE processed
       ELSE ApiResult(0, FALSE, None, FALSE, {"fatal"}, dsk, <<>>, 0)

NoCall ==
    [op |-> "none", key |-> <<>>, skip_cache |-> FALSE, session |-> FALSE,
     cacheWasEmpty |-> TRUE, fromCache |-> FALSE, requests |-> 0,
     raised |-> FALSE, value |-> None, normalized |-> FALSE,
     inferred |-> FALSE, logs |-> {}, langCalls |-> <<>>,
     outcome |-> "none", status |-> 0]

\* the body shared by infer_screen_name and infer_id once the key is known
Lookup(op, key, args, skip_cache, pretty, resp, dlOk) ==
    LET hit == ~skip_cache /\ key \in DOMAIN cacheFiles
        r == _twitter_api(twitter_session, args, resp, disk, dlOk)
        call == [op |-> op, key |-> key, skip_cache |-> skip_cache,
                 session |-> twitter_session,
                 cacheWasEmpty |-> DOMAIN cacheFiles = {},
                 fromCache |-> hit,
                 requests |-> IF hit THEN 0 ELSE r.requests,
                 raised |-> IF hit THEN FALSE ELSE r.raised,
                 value |-> IF hit THEN JsonLoad(cacheFiles[key]) ELSE r.value,
                 normalized |-> IF hit THEN FALSE ELSE r.normalized,
                 inferred |-> IF hit THEN FALSE ELSE r.inferred,
                 logs |-> IF hit THEN {"info"} ELSE r.logs \cup {"info"},
                 langCalls |-> IF hit THEN <<>> ELSE r.langCalls,
                 outcome |-> IF hit THEN "cache"
                             ELSE IF r.requests = 0 THEN "no_request"
                             ELSE resp.kind,
                 status |-> IF hit \/ r.requests = 0 \/ resp.kind = "exception"
                            THEN 0 ELSE resp.status]
    IN /\ workflow = "single"
       /\ numCalls < MaxCalls
       /\ numCalls' = numCalls + 1
       /\ prev' = last
       /\ last' = call
       /\ cacheFiles' = IF hit \/ r.raised THEN cacheFiles
                        ELSE (key :> JsonDump(r.value, pretty)) @@ cacheFiles
       /\ disk' = IF hit THEN disk ELSE r.disk
       /\ UNCHANGED <<workflow, twitter_session, tj, batchVars>>

\* screen_name.lower(), then drop a leading "@"
NormalizeScreenName(screen_name) ==
    LET low == Lower(screen_name)
    IN IF low[1] = "@" THEN Tail(low) ELSE low

infer_screen_name(screen_name, skip_cache, resp, dlOk) ==
    LET key == NormalizeScreenName(screen_name)
    IN Lookup("infer_screen_name", key, [screen_name |-> key], skip_cache, FALSE,
              resp, dlOk)

\* "{}".format(id) of a numeric id
FormatId(id) == <<CASE id = 1 -> "1" [] id = 2 -> "2" [] OTHER -> "0">>

infer_id(id, skip_cache, resp, dlOk) ==
    Lookup("infer_id", FormatId(id), [id |-> id], skip_cache, TRUE, resp, dlOk)

twitter_init ==
    /\ workflow = "single"
    /\ twitter_session' = TRUE
    /\ UNCHANGED <<workflow, cacheFiles, disk, numCalls, prev, last, tj, batchVars>>

\* open(auth_file) raises when the file cannot be read; then nothing changes
twitter_init_from_file(readable) ==
    /\ workflow = "single"
    /\ twitter_session' = IF readable THEN TRUE ELSE twitter_session
    /\ UNCHANGED <<workflow, cacheFiles, disk, numCalls, prev, last, tj, batchVars>>

----------------------------------------------------------------------------
(* Inputs *)

PicUrl == <<"https:", "/", "pbs", "/", "pic", "_normal", ".", "jpg">>
GifUrl == <<"https:", "/", "pbs", "/", "pic", "_200x200", ".", "GIF">>
NoExtUrl == <<"https:", "/", "pbs", ".", "com", "/", "pic">>
DefaultUrl == <<"https:", "/", "abs", "/", "default_profile", "_normal", ".", "png">>

\* user objects Twitter may answer with (users/show.json)
TwitterUsers ==
    { [screen_name |-> "a", id_str |-> "1", description |-> "hello",
       name |-> "A", profile_image_url |-> PicUrl],
      [screen_name |-> "b", id_str |-> "", description |-> "",
       name |-> "B", profile_image_url |-> DefaultUrl],
      [screen_name |-> "c", description |-> NoneVal, name |-> "C",
       profile_image_url |-> NoExtUrl] }

\* body of an error answer: no user field in it
ErrorBody == [errors |-> "Not Found"]

Responses ==
    {[kind |-> "exception"]} \cup
    {[kind |-> "response", status |-> 200, json |-> u] : u \in TwitterUsers} \cup
    {[kind |-> "response", status |-> 404, json |-> ErrorBody]}

ScreenNames == {<<"a">>, <<"@", "A">>, <<"1">>}
Ids == {1, 2}

----------------------------------------------------------------------------
(* Specification of the single-user path *)

BatchIdle ==
    /\ pc = "idle"
    /\ usersLiPt = <<>>
    /\ data = <<>>
    /\ users_li = <<>>
    /\ normIdx = 0
    /\ batchDownloads = 0
    /\ batchLangCalls = <<>>
    /\ inferArg = <<>>
    /\ preds = <<>>
    /\ idx_user = 0
    /\ num_errors = 0
    /\ outFiles = <<>>
    /\ id2name = <<>>

SingleIdle ==
    /\ twitter_session = FALSE
    /\ cacheFiles = <<>>
    /\ numCalls = 0
    /\ prev = NoCall
    /\ last = NoCall

InferScreenName ==
    \E sn \in ScreenNames, skip \in BOOLEAN, resp \in Responses, dlOk \in BOOLEAN :
        infer_screen_name(sn, skip, resp, dlOk)

InferId ==
    \E id \in Ids, skip \in BOOLEAN, resp \in Responses, dlOk \in BOOLEAN :
        infer_id(id, skip, resp, dlOk)

TwitterInit == twitter_init

TwitterInitFromFile == \E readable \in BOOLEAN : twitter_init_from_file(readable)

----------------------------------------------------------------------------
(* Record Normalizer: transform_jsonl_object *)

IsDefaultAvatar_Never(user) == FALSE

\* line 104: user["default_profile_image"]
IsDefaultAvatar(user) == user["default_profile_image"]

\* lines 84-121: the image branch taken, the file it names, the download made
TjImage(input, user, img_path_key, resize_img, keep_full_size_img, dsk, dlOk) ==
    LET onUser == img_path_key # NoneVal /\ img_path_key \in DOMAIN user
        onInput == img_path_key # NoneVal /\ img_path_key \in DOMAIN input
        given == IF onUser THEN user[img_path_key] ELSE input[img_path_key]
        img_path == Replace(user["profile_image_url_https"], "_normal", "_400x400")
        img_file_full == <<CacheDir, "/", user["id_str"], ".">> \o AfterLastDot(img_path)
        derived == ResizePath(CacheDir, user["id_str"], img_path)
    IN IF onUser \/ onInput
       THEN IF resize_img
            THEN [img |-> ResizePath(CacheDir, user["id_str"], given), downloads |-> 1,
                  disk |-> download_resize_img(dsk, dlOk,
                               ResizePath(CacheDir, user["id_str"], given), <<>>)]
            ELSE [img |-> given, downloads |-> 0, disk |-> dsk]
       ELSE IF IsDefaultAvatar(user)
       THEN [img |-> TW_DEFAULT_PROFILE_IMG, downloads |-> 0, disk |-> dsk]
       ELSE IF derived \in dsk
       THEN [img |-> derived, downloads |-> 0, disk |-> dsk]
       ELSE [img |-> derived, downloads |-> 1,
             disk |-> download_resize_img(dsk, dlOk, derived,
                          IF keep_full_size_img THEN img_file_full ELSE <<>>)]

\* lines 122-124: fall back to the placeholder when the file is not there
TjFallback(img_file_resize, dsk) ==
    IF img_file_resize \notin dsk THEN TW_DEFAULT_PROFILE_IMG ELSE img_file_resize

TjLang_NoEmptyCheck(input, user, lang_key, bio) ==
    IF lang_key # NoneVal /\ lang_key \in DOMAIN user
    THEN [lang |-> user[lang_key], langCalls |-> <<>>]
    ELSE IF lang_key # NoneVal /\ lang_key \in DOMAIN input
    THEN [lang |-> input[lang_key], langCalls |-> <<>>]
    ELSE [lang |-> get_lang(bio), langCalls |-> <<bio>>]

\* lines 126-137
TjLang(input, user, lang_key, bio) ==
    IF lang_key # NoneVal /\ lang_key \in DOMAIN user
    THEN [lang |-> user[lang_key], langCalls |-> <<>>]
    ELSE IF lang_key # NoneVal /\ lang_key \in DOMAIN input
    THEN [lang |-> input[lang_key], langCalls |-> <<>>]
    ELSE IF bio = ""
    THEN [lang |-> UNKNOWN_LANG, langCalls |-> <<>>]
    ELSE [lang |-> get_lang(bio), langCalls |-> <<bio>>]

\* lines 139-146
TjId(user) == user["id_str"]

transform_jsonl_object(input, img_path_key, lang_key, resize_img, keep_full_size_img, dsk, dlOk) ==
    LET user == IF "user" \in DOMAIN input THEN input["user"] ELSE input
        image == TjImage(input, user, img_path_key, resize_img,
                         keep_full_size_img, dsk, dlOk)
        bio == IF user["description"] = NoneVal THEN "" ELSE user["description"]
        l == TjLang(input, user, lang_key, bio)
    IN IF "id_str" \notin DOMAIN user
       THEN [raised |-> TRUE, disk |-> dsk]    \* KeyError: 'id_str'
       ELSE [raised |-> FALSE, disk |-> image.disk,
             downloads |-> image.downloads, langCalls |-> l.langCalls,
             output |-> [description |-> bio, id |-> TjId(user),
                         img_path |-> TjFallback(image.img, image.disk),
                         lang |-> l.lang, name |-> user["name"],
                         screen_name |-> user["screen_name"]]]

LocalImg == <<"imgs", "/", "me", ".", "jpg">>
HttpsUrl == <<"https:", "/", "pbs", "/", "me", "_normal", ".", "jpg">>

TjUserCore ==
    { [default_profile_image |-> dflt, profile_image_url_https |-> HttpsUrl,
       description |-> bio, name |-> "N", screen_name |-> "n"] :
      dflt \in BOOLEAN, bio \in {"hello", "", NoneVal} }

\* optional fields of an object: its id_str, an image under "my_img", a
\* language under "my_lang"
ExtraValue(k, v) ==
    CASE k = "id_str" -> v
      [] k = "my_img" -> IF v = "" THEN GifUrl ELSE LocalImg
      [] k = "my_lang" -> <<"fr">>

WithExtras(obj, ks, v) ==
    [k \in DOMAIN obj \cup ks |-> IF k \in ks THEN ExtraValue(k, v) ELSE obj[k]]

TjUsers ==
    { WithExtras(u, ks, v) :
      u \in TjUserCore, ks \in SUBSET {"id_str", "my_img", "my_lang"}, v \in {"7", ""} }

\* a user object, or a tweet object holding one
TjInputs ==
    TjUsers \cup
    { WithExtras([user |-> u], ks, "7") :
      u \in {x \in TjUsers : "id_str" \in DOMAIN x /\ x.description # ""},
      ks \in SUBSET {"my_img", "my_lang"} }

Transform ==
    /\ workflow = "transform"
    /\ tj = <<>>
    /\ \E input \in TjInputs, img_path_key \in {NoneVal, "my_img"},
          lang_key \in {NoneVal, "my_lang"}, resize_img \in BOOLEAN,
          keep_full_size_img \in BOOLEAN, dlOk \in BOOLEAN :
          LET r == transform_jsonl_object(input, img_path_key, lang_key,
                       resize_img, keep_full_size_img, disk, dlOk)
          IN /\ tj' = <<[input |-> input, img_path_key |-> img_path_key,
                         lang_key |-> lang_key, resize_img |-> resize_img,
                         keep_full_size_img |-> keep_full_size_img,
                         diskBefore |-> disk, res |-> r]>>
             /\ disk' = r.disk
    /\ UNCHANGED <<singleVars, batchVars>>

----------------------------------------------------------------------------
(* Batch path: process_twitter_batch *)

\* M3Inference.infer returns a dict keyed by record id, in the order of the
\* records; a later record with the same id replaces the earlier value
RECURSIVE InferItems(_)
InferItems(recs) ==
    IF recs = <<>> THEN <<>>
    ELSE LET n == Len(recs)
             front == InferItems(SubSeq(recs, 1, n - 1))
             r == recs[n]
         IN IF \E j \in 1..Len(front) : front[j][1] = r.id
            THEN [j \in 1..Len(front) |->
                     IF front[j][1] = r.id THEN <<r.id, PredOf(r)>> ELSE front[j]]
            ELSE Append(front, <<r.id, PredOf(r)>>)

\* raw records given to process_twitter_batch
BatchUsers ==
    { [id |-> "1", screen_name |-> "a", description |-> "hello", name |-> "A",
       profile_image_url |-> PicUrl],
      [id |-> "2", screen_name |-> "b", description |-> "", name |-> "B",
       profile_image_url |-> DefaultUrl],
      [id |-> "", screen_name |-> "c", description |-> NoneVal, name |-> "C",
       profile_image_url |-> GifUrl],
      [screen_name |-> "d", name |-> "D"] }

CachedRecord(id) ==
    [description |-> "cached", id |-> id, img_path |-> TW_DEFAULT_PROFILE_IMG,
     lang |-> <<"en">>, name |-> "K", screen_name |-> "k"]

\* what a users_li.pt left by an earlier run may hold
CachedLists == {<<CachedRecord("1")>>, <<CachedRecord("2"), CachedRecord("1")>>}

\* check_twitter_users.py: user_id2name = {v: k for k, v in user_name2id.items()}
Id2Names ==
    { f \in UNION {[S -> {"alice", "bob"}] : S \in SUBSET {"1", "2", "dummy"}} :
        \A x, y \in DOMAIN f : f[x] = f[y] => x = y }

UseCache_Never(pt) == FALSE

\* line 324: osp.exists("users_li.pt")
UseCache(pt) == pt # <<>>

BatchId_NoSentinel(user) == IF "id" \in DOMAIN user THEN user["id"] ELSE ""

\* lines 331-337
BatchId(user) ==
    LET id == IF "id" \in DOMAIN user THEN user["id"] ELSE ""
    IN IF id = "" THEN "dummy" ELSE id

\* lines 333, 339-342
BatchLang(user) ==
    LET bio == IF "description" \in DOMAIN user THEN user["description"] ELSE ""
    IN IF bio = "" THEN [lang |-> UNKNOWN_LANG, langCalls |-> <<>>]
       ELSE [lang |-> get_lang(bio), langCalls |-> <<bio>>]

\* lines 335, 344-373
BatchImage(user, id, dsk, dlOk) ==
    LET img_path0 == IF "profile_image_url" \in DOMAIN user
                     THEN user["profile_image_url"] ELSE <<>>
        img_path == Upgrade400(img_path0)
        img_full_dir == <<DataDir, "/", "profile_img_full">>
        img_resize_dir == <<DataDir, "/", "profile_img_resize">>
        img_file_full == img_full_dir \o Tail(FullPath("", id, img_path))
        img_file_resize == img_resize_dir \o Tail(ResizePath("", id, img_path))
    IN IF img_path0 = <<>> \/ Contains(img_path0, "default_profile")
       THEN [img |-> TW_DEFAULT_PROFILE_IMG, downloads |-> 0, disk |-> dsk]
       ELSE [img |-> img_file_resize, downloads |-> 1,
             disk |-> download_resize_img(dsk, dlOk, img_file_resize, img_file_full)]

\* lines 331-382: one iteration of the normalisation loop
NormalizeUser(user, dsk, dlOk) ==
    LET id == BatchId(user)
        l == BatchLang(user)
        image == BatchImage(user, id, dsk, dlOk)
    IN [rec |-> [description |-> IF "description" \in DOMAIN user
                                 THEN user["description"] ELSE "",
                 id |-> id, img_path |-> image.img, lang |-> l.lang,
                 name |-> IF "name" \in DOMAIN user THEN user["name"] ELSE "",
                 screen_name |-> _get_twitter_attrib("screen_name", user)],
        langCalls |-> l.langCalls, downloads |-> image.downloads,
        disk |-> image.disk]

\* line 391: assert data[idx_user]["id"] == user_id (IndexError and KeyError
\* abort the run as the AssertionError does)
AssertHolds(d, i, user_id) ==
    /\ i + 1 <= Len(d)
    /\ "id" \in DOMAIN d[i + 1]
    /\ d[i + 1]["id"] = user_id

WriteOutput_BeforeAssert(files, index, asserted, user_id, pred) ==
    IF user_id \in DOMAIN index
    THEN (index[user_id] :> pred) @@ files
    ELSE files

\* lines 392-394: the file written by one iteration of the output loop
WriteOutput(files, index, asserted, user_id, pred) ==
    IF asserted /\ user_id \in DOMAIN index
    THEN (index[user_id] :> pred) @@ files
    ELSE files

CountError_Always(n, index, asserted, user_id) ==
    IF asserted THEN n + 1 ELSE n

\* lines 396-397
CountError(n, index, asserted, user_id) ==
    IF asserted /\ user_id \notin DOMAIN index THEN n + 1 ELSE n

\* lines 321-328
BatchStart ==
    /\ workflow = "batch"
    /\ pc = "idle"
    /\ \E n \in 0..MaxBatch : \E d \in [1..n -> BatchUsers] : data' = d
    /\ IF UseCache(usersLiPt)
       THEN users_li' = usersLiPt[1] /\ pc' = "infer"
       ELSE users_li' = <<>> /\ pc' = "normalize"
    /\ UNCHANGED <<singleVars, disk, tj, usersLiPt, normIdx, batchDownloads,
                   batchLangCalls, inferArg, preds, idx_user, num_errors,
                   outFiles, id2name>>

\* lines 329-382
BatchNormalize ==
    /\ pc = "normalize"
    /\ normIdx < Len(data)
    /\ \E dlOk \in BOOLEAN :
          LET r == NormalizeUser(data[normIdx + 1], disk, dlOk)
          IN /\ users_li' = Append(users_li, r.rec)
             /\ batchDownloads' = batchDownloads + r.downloads
             /\ batchLangCalls' = batchLangCalls \o r.langCalls
             /\ disk' = r.disk
    /\ normIdx' = normIdx + 1
    /\ UNCHANGED <<singleVars, tj, pc, usersLiPt, data, inferArg, preds,
                   idx_user, num_errors, outFiles, id2name>>

\* lines 384-388
BatchInfer ==
    /\ pc = "infer" \/ (pc = "normalize" /\ normIdx = Len(data))
    /\ inferArg' = <<users_li>>
    /\ preds' = InferItems(users_li)
    /\ num_errors' = 0
    /\ idx_user' = 0
    /\ pc' = IF InferItems(users_li) = <<>> THEN "done" ELSE "output"
    /\ UNCHANGED <<singleVars, disk, tj, usersLiPt, data, users_li, normIdx,
                   batchDownloads, batchLangCalls, outFiles, id2name>>

\* lines 390-398: one iteration of the output loop
BatchOutput ==
    /\ pc = "output"
    /\ LET user_id == preds[idx_user + 1][1]
           pred == preds[idx_user + 1][2]
           asserted == AssertHolds(data, idx_user, user_id)
       IN /\ outFiles' = WriteOutput(outFiles, id2name, asserted, user_id, pred)
          /\ num_errors' = CountError(num_errors, id2name, asserted, user_id)
          /\ idx_user' = IF asserted THEN idx_user + 1 ELSE idx_user
          /\ pc' = IF ~asserted THEN "aborted"
                   ELSE IF idx_user + 1 = Len(preds) THEN "done" ELSE "output"
    /\ UNCHANGED <<singleVars, disk, tj, usersLiPt, data, users_li, normIdx,
                   batchDownloads, batchLangCalls, inferArg, preds, id2name>>

----------------------------------------------------------------------------
(* Specification *)

(* The three entry points share no state that one writes and another      *)
(* reads, except image files: a run drives one of them, and Init           *)
(* enumerates the image files an earlier run may have left.                *)

\* M3Twitter(data_dir) as constructed by default: id2name is None, which the
\* output loop treats as an index without entries
InitSingle ==
    /\ workflow = "single"
    /\ SingleIdle
    /\ BatchIdle
    /\ tj = <<>>
    /\ disk = {TW_DEFAULT_PROFILE_IMG}

InitTransform ==
    /\ workflow = "transform"
    /\ SingleIdle
    /\ BatchIdle
    /\ tj = <<>>
    /\ \E pre \in SUBSET {LocalImg, ResizePath(CacheDir, "7", HttpsUrl)} :
          disk = {TW_DEFAULT_PROFILE_IMG} \cup pre

\* check_twitter_users.py lines 8-27, before process_twitter_batch is called
InitBatch ==
    /\ workflow = "batch"
    /\ twitter_session = TRUE
    /\ cacheFiles = <<>>
    /\ numCalls = 0
    /\ prev = NoCall
    /\ last = NoCall
    /\ tj = <<>>
    /\ disk = {TW_DEFAULT_PROFILE_IMG}
    /\ pc = "idle"
    /\ usersLiPt \in {<<>>} \cup {<<l>> : l \in CachedLists}
    /\ id2name \in Id2Names
    /\ data = <<>>
    /\ users_li = <<>>
    /\ normIdx = 0
    /\ batchDownloads = 0
    /\ batchLangCalls = <<>>
    /\ inferArg = <<>>
    /\ preds = <<>>
    /\ idx_user = 0
    /\ num_errors = 0
    /\ outFiles = <<>>

Init == InitSingle \/ InitTransform \/ InitBatch

Next ==
    \/ TwitterInit
    \/ TwitterInitFromFile
    \/ InferScreenName
    \/ InferId
    \/ Transform
    \/ BatchStart
    \/ BatchNormalize
    \/ BatchInfer
    \/ BatchOutput

Spec == Init /\ [][Next]_vars

----------------------------------------------------------------------------
(* Properties: single-user path *)

\* C1: from an empty cache, two consecutive lookups of the same key with
\* skip_cache=False make exactly one Twitter request in total, whatever the
\* first request's outcome, and the second returns what the first returned
\* and cached.
C1_TwoCallsOneRequest ==
    (/\ prev.op # "none"
     /\ last.op = prev.op
     /\ last.key = prev.key
     /\ ~prev.skip_cache
     /\ ~last.skip_cache
     /\ prev.cacheWasEmpty
     /\ prev.session)
    => /\ prev.requests + last.requests = 1
       /\ last.fromCache
       /\ last.value = prev.value

\* C3: a non-200 response or a client exception gives a logged failure and
\* None, without raising, without normalisation or inference, by screen name
\* and by id alike.
C3_FailureReturnsNone ==
    (last.op # "none" /\ last.requests = 1
        /\ (last.outcome = "exception" \/ last.status # 200))
    => /\ ~last.raised
       /\ last.value = None
       /\ ~last.normalized
       /\ ~last.inferred
       /\ "warning" \in last.logs

\* C6: a lookup that misses the cache (or skips it) while the session is not
\* initialised sends no request, runs no normalisation or inference, logs at
\* fatal severity and returns None without raising; once the session is
\* initialised such a lookup sends its request.
C6_NoSessionNoRequest ==
    (last.op # "none" /\ ~last.fromCache)
    => IF ~last.session
       THEN /\ last.requests = 0
            /\ ~last.normalized
            /\ ~last.inferred
            /\ "fatal" \in last.logs
            /\ last.value = None
            /\ ~last.raised
       ELSE last.requests = 1

C6_Witness ==
    /\ prev.op # "none"
    /\ ~prev.session
    /\ ~prev.fromCache
    /\ prev.requests = 0
    /\ "fatal" \in prev.logs
    /\ last.session
    /\ ~last.fromCache
    /\ last.requests = 1

\* C9: a per-key cache file exists only after a successful lookup and holds
\* that lookup's {input, output} object; a failed lookup leaves the cache
\* directory as it was.
C9_CacheHoldsOnlySuccesses ==
    \A k \in DOMAIN cacheFiles : cacheFiles[k].text = "object"

----------------------------------------------------------------------------
(* Properties: batch path *)

InIndex(n) == {j \in 1..n : preds[j][1] \in DOMAIN id2name}

NotInIndex(n) == {j \in 1..n : preds[j][1] \notin DOMAIN id2name}

\* the run stopped at a record whose id is not the id of the prediction at
\* the same position
IdMismatchAbort ==
    /\ pc = "aborted"
    /\ idx_user + 1 <= Len(data)
    /\ "id" \in DOMAIN data[idx_user + 1]
    /\ data[idx_user + 1]["id"] # preds[idx_user + 1][1]

C5_CacheSkipsNormalization ==
    (workflow = "batch" /\ usersLiPt # <<>>)
    => /\ pc # "normalize"
       /\ normIdx = 0
       /\ batchDownloads = 0
       /\ batchLangCalls = <<>>
       /\ disk = {TW_DEFAULT_PROFILE_IMG}
       /\ pc # "idle" => users_li = usersLiPt[1]
       /\ inferArg # <<>> => inferArg[1] = usersLiPt[1]

C5_Witness ==
    /\ usersLiPt # <<>>
    /\ inferArg = <<usersLiPt[1]>>
    /\ Len(data) # Len(usersLiPt[1])
    /\ \E i \in 1..Len(data) :
          /\ "profile_image_url" \in DOMAIN data[i]
          /\ data[i]["profile_image_url"] = PicUrl

----------------------------------------------------------------------------
(* Properties: normalisation *)

TjCalled == tj # <<>> /\ ~tj[1].res.raised

TjUser == IF "user" \in DOMAIN tj[1].input THEN tj[1].input["user"] ELSE tj[1].input

TjKeyFound(k) == k # NoneVal /\ (k \in DOMAIN TjUser \/ k \in DOMAIN tj[1].input)

\* C7: a record whose user has the default-profile-image flag set gets the
\* placeholder as img_path, whatever its other image fields and whatever
\* img_path_key and resize_img are.
C7_DefaultFlagGivesPlaceholder ==
    (TjCalled /\ TjUser["default_profile_image"])
    => tj[1].res.output.img_path = TW_DEFAULT_PROFILE_IMG

\* C7 (amended): a record whose user has the default-profile-image flag set
\* gets the placeholder as img_path whenever img_path_key is None or names a
\* key present neither on the user object nor on the top-level object,
\* whatever the other image fields and resize_img are.
C7_DefaultFlagWithoutImageKey ==
    (TjCalled /\ TjUser["default_profile_image"] /\ ~TjKeyFound(tj[1].img_path_key))
    => /\ tj[1].res.output.img_path = TW_DEFAULT_PROFILE_IMG
       /\ tj[1].res.downloads = 0

C7_Witness ==
    /\ TjCalled
    /\ TjUser["default_profile_image"]
    /\ tj[1].img_path_key = NoneVal
    /\ "my_img" \in DOMAIN TjUser
    /\ ResizePath(CacheDir, "7", HttpsUrl) \in tj[1].diskBefore
    /\ tj[1].res.output.img_path = TW_DEFAULT_PROFILE_IMG

NormalizedByBatch == IF usersLiPt # <<>> THEN 0 ELSE normIdx

RECURSIVE BiosToDetect(_)
BiosToDetect(recs) ==
    IF recs = <<>> THEN <<>>
    ELSE (IF Head(recs).description = "" THEN <<>> ELSE <<Head(recs).description>>)
         \o BiosToDetect(Tail(recs))

\* C8: the Normalizer gives lang the unknown-language sentinel when the bio
\* is empty or null and the result of get_lang on exactly the bio otherwise,
\* in transform_jsonl_object for any lang_key and in process_twitter and
\* process_twitter_batch.
C8_LangFromBio ==
    /\ TjCalled
       => IF TjUser["description"] \in {"", NoneVal}
          THEN tj[1].res.output.lang = UNKNOWN_LANG /\ tj[1].res.langCalls = <<>>
          ELSE /\ tj[1].res.output.lang = get_lang(TjUser["description"])
               /\ tj[1].res.langCalls = <<TjUser["description"]>>
    /\ last.normalized
       => IF last.value.input.description \in {"", NoneVal}
          THEN last.value.input.lang = UNKNOWN_LANG /\ last.langCalls = <<>>
          ELSE /\ last.value.input.lang = get_lang(last.value.input.description)
               /\ last.langCalls = <<last.value.input.description>>
    /\ \A i \in 1..NormalizedByBatch :
          IF users_li[i].description \in {"", NoneVal}
          THEN users_li[i].lang = UNKNOWN_LANG
          ELSE users_li[i].lang = get_lang(users_li[i].description)

\* C8 (amended): transform_jsonl_object, when lang_key is None or names a key
\* present neither on the user object nor on the top-level object, gives lang
\* the sentinel for an empty or null bio and get_lang(bio) otherwise;
\* process_twitter and process_twitter_batch give the sentinel for an empty
\* or missing bio and otherwise call get_lang with the bio as it is, a null
\* one included.
C8_LangFromBioNoLangKey ==
    /\ (TjCalled /\ ~TjKeyFound(tj[1].lang_key))
       => IF TjUser["description"] \in {"", NoneVal}
          THEN tj[1].res.output.lang = UNKNOWN_LANG /\ tj[1].res.langCalls = <<>>
          ELSE /\ tj[1].res.output.lang = get_lang(TjUser["description"])
               /\ tj[1].res.langCalls = <<TjUser["description"]>>
    /\ last.normalized
       => IF last.value.input.description = ""
          THEN last.value.input.lang = UNKNOWN_LANG /\ last.langCalls = <<>>
          ELSE /\ last.value.input.lang = get_lang(last.value.input.description)
               /\ last.langCalls = <<last.value.input.description>>
    /\ \A i \in 1..NormalizedByBatch :
          IF users_li[i].description = ""
          THEN users_li[i].lang = UNKNOWN_LANG
          ELSE users_li[i].lang = get_lang(users_li[i].description)
    /\ batchLangCalls = BiosToDetect(SubSeq(users_li, 1, NormalizedByBatch))

C8_Witness ==
    /\ TjCalled
    /\ tj[1].lang_key = "my_lang"
    /\ ~TjKeyFound("my_lang")
    /\ TjUser["description"] = "hello"
    /\ tj[1].res.output.lang = get_lang("hello")
    /\ tj[1].res.langCalls = <<"hello">>

====
